---- MODULE Spec2Model ----
(***************************************************************************)
(* A model of configure.py: the guarded run (unset_aws_env around          *)
(* configure_profiles), the device-authorization login with its token      *)
(* cache, the enumeration of accounts and roles, and the reconciliation    *)
(* of the AWS CLI config file.                                             *)
(*                                                                         *)
(* Strings the program takes apart (account names, role names, profile and *)
(* section names) are sequences of one-character strings; strings it only  *)
(* copies (URL, region, account id, tokens) are TLA+ strings.              *)
(***************************************************************************)
EXTENDS Integers, Sequences, FiniteSets, TLC

\* ------------------------------------------------------------------ bounds
MaxRuns == 2        \* invocations of the program against the same paths
MaxPolls == 3       \* "authorization pending" answers the provider gives in one login
MaxSections == 2    \* sections of the config file before the first run
MaxAccounts == 2    \* accounts the provider lists in one run
MaxWordLen == 3     \* characters of an account or role name given to _name_profile alone

\* ------------------------------------------------------------- characters
UpperChars == {"A", "B", "C", "D", "Q", "R", "S"}
LowerChars == {"a", "b", "c", "d", "e", "f", "h", "i", "l", "o", "p", "q", "r", "s", "t", "x"}
DigitChars == {"1", "2"}

\* str.lower() on one character
ToLower(c) ==
    CASE c = "A" -> "a"
      [] c = "B" -> "b"
      [] c = "C" -> "c"
      [] c = "D" -> "d"
      [] c = "Q" -> "q"
      [] c = "R" -> "r"
      [] c = "S" -> "s"
      [] OTHER -> c

\* str.lower()
Lower(w) == [i \in 1..Len(w) |-> ToLower(w[i])]

\* str.startswith
StartsWith(w, prefix) ==
    /\ Len(w) >= Len(prefix)
    /\ SubSeq(w, 1, Len(prefix)) = prefix

\* the last index of the run of [A-Z] characters that starts at i
RECURSIVE UpperRunEnd(_, _)
UpperRunEnd(w, i) ==
    IF i < Len(w) /\ w[i + 1] \in UpperChars THEN UpperRunEnd(w, i + 1) ELSE i

\* re.sub(r"([A-Z]+)([A-Z][a-z])", r"\1-\2", w), scanning from index i:
\* leftmost match, greedy first group, the scan resumes after the match
RECURSIVE SubAcronym(_, _)
SubAcronym(w, i) ==
    IF i > Len(w) THEN <<>>
    ELSE IF w[i] \in UpperChars
         THEN LET j == UpperRunEnd(w, i) IN
              IF j > i /\ j < Len(w) /\ w[j + 1] \in LowerChars
              THEN SubSeq(w, i, j - 1) \o <<"-", w[j], w[j + 1]>> \o SubAcronym(w, j + 2)
              ELSE <<w[i]>> \o SubAcronym(w, i + 1)
         ELSE <<w[i]>> \o SubAcronym(w, i + 1)

\* re.sub(r"([a-z\d])([A-Z])", r"\1-\2", w), scanning from index i
RECURSIVE SubCamel(_, _)
SubCamel(w, i) ==
    IF i > Len(w) THEN <<>>
    ELSE IF /\ w[i] \in LowerChars \cup DigitChars
            /\ i < Len(w)
            /\ w[i + 1] \in UpperChars
         THEN <<w[i], "-", w[i + 1]>> \o SubCamel(w, i + 2)
         ELSE <<w[i]>> \o SubCamel(w, i + 1)

\* Hyphenate without the closing word.lower()
HyphenateUnlowered(word) == SubCamel(SubAcronym(word, 1), 1)

\* _hyphenate
Hyphenate(word) == Lower(SubCamel(SubAcronym(word, 1), 1))

\* _name_profile: '-'.join([namespace, _hyphenate(account), _hyphenate(role)])
NameProfile(account_name, role_name, namespace) ==
    namespace \o <<"-">> \o Hyphenate(account_name) \o <<"-">> \o Hyphenate(role_name)

\* the literal 'profile ' of the section names
ProfileWord == <<"p", "r", "o", "f", "i", "l", "e", " ">>

\* f'profile {profile_name}'
SectionName(profile_name) == ProfileWord \o profile_name

\* --------------------------------------------- ordered mappings (dict, ConfigParser)
\* A mapping is a sequence of [name, settings] with distinct names, in insertion order.
Keys(d) == {d[i].name : i \in 1..Len(d)}

Get(d, k) == d[CHOOSE i \in 1..Len(d) : d[i].name = k].settings

\* Put as d.setdefault(k, v): an existing key keeps its value
PutKeepsFirst(d, k, v) ==
    IF k \in Keys(d) THEN d ELSE Append(d, [name |-> k, settings |-> v])

\* d[k] = v: an existing key keeps its place and has its whole value replaced
Put(d, k, v) ==
    IF k \in Keys(d)
    THEN [i \in 1..Len(d) |-> IF d[i].name = k THEN [name |-> k, settings |-> v] ELSE d[i]]
    ELSE Append(d, [name |-> k, settings |-> v])

\* del d[k]
Del(d, k) == SelectSeq(d, LAMBDA e : e.name # k)

\* d[k] = v for every (k, v) of entries, in order
RECURSIVE PutAll(_, _)
PutAll(d, entries) ==
    IF entries = <<>> THEN d
    ELSE PutAll(Put(d, Head(entries).name, Head(entries).settings), Tail(entries))

\* del d[k] for every k of the set ks
DelAll(d, ks) == SelectSeq(d, LAMBDA e : e.name \notin ks)

\* ------------------------------------------------------------ command line
\* args.url and args.region (the default of --region)
AccessPortalUrl == "https://d-123456.awsapps.com/start"
Region == "us-east-1"

\* args.namespace: the default 'sso' is modelled by the one-letter "s"
Namespaces == {<<"s">>}

\* --------------------------------------------------- os.environ of the process
AWS_PROFILE == <<"A", "W", "S", "_", "P", "R", "O", "F", "I", "L", "E">>
AWS_SDK_LOAD_CONFIG ==
    <<"A", "W", "S", "_", "S", "D", "K", "_", "L", "O", "A", "D", "_", "C", "O", "N", "F", "I", "G">>
AWS_REGION == <<"A", "W", "S", "_", "R", "E", "G", "I", "O", "N">>
HOME == <<"H", "O", "M", "E">>
EnvNames == {AWS_PROFILE, AWS_SDK_LOAD_CONFIG, AWS_REGION, HOME}

\* the value of a variable that is not set
Unset == "<unset>"

\* the environments the shell starts the program in: AWS_REGION is not set
ShellEnvs ==
    { [n \in EnvNames |->
          CASE n = AWS_PROFILE -> "prod"
            [] n = AWS_SDK_LOAD_CONFIG -> "1"
            [] n = AWS_REGION -> Unset
            [] OTHER -> "/home/user"] }

\* the generator `variables` of unset_aws_env
AwsVariables(environ) ==
    { n \in EnvNames :
        /\ environ[n] # Unset
        /\ StartsWith(n, <<"A", "W", "S">>)
        /\ n # AWS_SDK_LOAD_CONFIG }

\* ------------------------------------------------------------ files on disk
\* A config file or a backup: absent, present and parseable into its sections, or
\* present and unparseable. `comments` tells whether the text holds comment lines,
\* which ConfigParser.read_file skips and ConfigParser.write therefore never writes.
NoFile == [exists |-> FALSE, parses |-> FALSE, sections |-> <<>>, comments |-> FALSE]

\* the text ConfigParser.write produces for `sections`
FileOf(sections) == [exists |-> TRUE, parses |-> TRUE, sections |-> sections, comments |-> FALSE]

\* a file somebody wrote by hand, with comment lines between its sections
Commented(file) == [file EXCEPT !.comments = TRUE]

CorruptFile == [exists |-> TRUE, parses |-> FALSE, sections |-> <<>>, comments |-> FALSE]

\* What open('w') followed by a failing write can leave behind: open('w') has
\* truncated the file, and any part of the content may have reached the disk (whole
\* sections, or a cut inside a line, which no longer parses).
TornWrites(content) ==
    {FileOf(SubSeq(content, 1, k)) : k \in 0..(Len(content) - 1)}
        \cup {FileOf(<<>>)}
        \cup (IF content = <<>> THEN {} ELSE {CorruptFile})

\* WriteOutcomes with the file opened to append ('a') in place of 'w'
WriteOutcomesAppending(old, content) ==
    {[raised |-> FALSE, file |-> FileOf(old.sections \o content)]}
        \cup {[raised |-> TRUE, file |-> old]}

\* The outcomes of `with path.open('w') as f: config.write(f)` over the file `old`:
\* it succeeds, or open() raises and the file is as it was, or the write raises after
\* the truncation.
WriteOutcomes(old, content) ==
    {[raised |-> FALSE, file |-> FileOf(content)]}
        \cup {[raised |-> TRUE, file |-> old]}
        \cup {[raised |-> TRUE, file |-> f] : f \in TornWrites(content)}

\* strftime('%Y%m%dT%H%M'): the clock at minute resolution
SecondsPerMinute == 60
Stamp(t) == t \div SecondsPerMinute

\* the backups directory: stamp -> file
NoBackups == [s \in {} |-> NoFile]
WithBackup(b, s, f) == [x \in (DOMAIN b) \cup {s} |-> IF x = s THEN f ELSE b[x]]

\* ------------------------------------------------------- the sections before the first run
HandWritten == [region |-> "eu-west-1", output |-> "json"]
StaleProfile ==
    [sso_start_url |-> "https://old.awsapps.com/start",
     sso_account_id |-> "000",
     sso_role_name |-> <<"R">>,
     sso_region |-> "eu-west-1",
     region |-> "eu-west-1",
     output |-> "json"]

\* 'profile other', 'profile sx', 'profile s-a-b-r'
SectionPool ==
    << [name |-> <<"p", "r", "o", "f", "i", "l", "e", " ", "o", "t", "h", "e", "r">>,
        settings |-> HandWritten],
       [name |-> <<"p", "r", "o", "f", "i", "l", "e", " ", "s", "x">>,
        settings |-> HandWritten],
       [name |-> <<"p", "r", "o", "f", "i", "l", "e", " ", "s", "-", "a", "-", "b", "-", "r">>,
        settings |-> StaleProfile] >>

\* the entries of SectionPool picked by the index set S, in the pool's order
Pick(S) == SelectSeq(SectionPool, LAMBDA e : \E i \in S : SectionPool[i] = e)

InitialFiles ==
    LET written == {FileOf(Pick(S)) :
                       S \in {T \in SUBSET (1..Len(SectionPool)) : Cardinality(T) <= MaxSections}}
    IN {NoFile, CorruptFile} \cup written \cup {Commented(f) : f \in written}

\* ------------------------------------------------------------ the token cache file
\* The file profile_manager.json: absent, present without being JSON, or a JSON
\* object that may lack either key.
CacheAbsent ==
    [exists |-> FALSE, json |-> FALSE, has_expires |-> FALSE, expires |-> 0,
     has_token |-> FALSE, token |-> "None"]
CacheGarbage == [CacheAbsent EXCEPT !.exists = TRUE]
CacheObject(has_e, e, has_t, t) ==
    [exists |-> TRUE, json |-> TRUE, has_expires |-> has_e, expires |-> e,
     has_token |-> has_t, token |-> t]

\* an expiry later than every clock reading of the model
Horizon == (MaxRuns + 1) * (SecondsPerMinute + MaxPolls + 1)

InitialCaches ==
    { CacheAbsent, CacheGarbage,
      CacheObject(TRUE, Horizon, TRUE, "tok-old"),
      CacheObject(FALSE, 0, TRUE, "tok-old"),
      CacheObject(TRUE, 1, FALSE, "None"),
      CacheObject(TRUE, 0, TRUE, "tok-old"),
      CacheObject(TRUE, 1, TRUE, "tok-old") }

\* Python's None, where the model's value is a string
None == "None"

\* _get_cached_token at clock t: what it returns, or that it raises. Only
\* AssertionError and FileNotFoundError are caught; json.load's JSONDecodeError and
\* the KeyError of a missing key are not.
GetCachedToken(cache, t) ==
    IF ~cache.exists THEN [raised |-> FALSE, token |-> None]
    ELSE IF ~cache.json THEN [raised |-> TRUE, token |-> None]
    ELSE IF ~cache.has_expires THEN [raised |-> TRUE, token |-> None]
    ELSE IF ~(cache.expires > t) THEN [raised |-> FALSE, token |-> None]
    ELSE IF ~cache.has_token THEN [raised |-> TRUE, token |-> None]
    ELSE [raised |-> FALSE, token |-> cache.token]

\* CacheToken with the clock alone as the expiry
CacheTokenWithoutLifetime(t, tok, expires_in) == CacheObject(TRUE, t, TRUE, tok)

\* _cache_token at clock t: the file it writes
CacheToken(t, tok, expires_in) == CacheObject(TRUE, t + expires_in, TRUE, tok)

\* ------------------------------------------------------------ the identity provider
ClientIds == {"client-1", "client-2"}
DeviceCodes == {"device-1", "device-2"}
NoClient == [clientId |-> None, clientSecret |-> None]
NoDevice == [deviceCode |-> None]
NoResponse == [accessToken |-> None, expiresIn |-> 0]

\* the lifetimes (expiresIn, seconds) of the tokens the provider issues
Lifetimes == {1, 3}

\* what create_token raises other than AuthorizationPendingException
PollErrors == {"ExpiredTokenException", "AccessDeniedException", "SlowDownException"}

\* the accounts the user may hold: 'aB' and 'CDe'
Accounts ==
    { [accountId |-> "111", accountName |-> <<"a", "B">>],
      [accountId |-> "222", accountName |-> <<"C", "D", "e">>] }

\* the pages in which the provider delivers the roles of one account
\* The roles 'R' and 'r' hyphenate to the same word. An account has no role, or 'R',
\* or 'R' and 'q' on one page or on two, or 'R' and 'r'.
RoleR == <<"R">>
RoleQ == <<"q">>
RoleLowerR == <<"r">>
RolePagings ==
    { << <<>> >>,
      << <<RoleR>> >>,
      << <<RoleR, RoleQ>> >>,
      << <<RoleR>>, <<RoleQ>> >>,
      << <<RoleR, RoleLowerR>> >> }

\* what the provider holds for the user: accounts, each with its pages of roles
Grants ==
    { [accountId |-> a.accountId, accountName |-> a.accountName, rolePages |-> rp]
      : a \in Accounts, rp \in RolePagings }

Listings ==
    { l \in UNION {[1..n -> Grants] : n \in 0..MaxAccounts} :
        \A i, j \in 1..Len(l) : l[i].accountId = l[j].accountId => i = j }

\* the pages of list_accounts, `size` accounts to a page
RECURSIVE Paginate(_, _)
Paginate(l, size) ==
    IF Len(l) <= size THEN <<l>>
    ELSE <<SubSeq(l, 1, size)>> \o Paginate(SubSeq(l, size + 1, Len(l)), size)

\* paginator.paginate(...).search('accountList'): every page, in order
RECURSIVE Search(_)
Search(pages) == IF pages = <<>> THEN <<>> ELSE Head(pages) \o Search(Tail(pages))

\* sso_client.list_account_roles(accessToken, accountId): one response, the first page
ListAccountRoles(grant) ==
    [roleList |-> grant.rolePages[1], nextToken |-> Len(grant.rolePages) > 1]

\* the dict generate_profiles builds for one profile
ProfileConfig(account_id, role_name, access_portal, region) ==
    [sso_start_url |-> access_portal,
     sso_account_id |-> account_id,
     sso_role_name |-> role_name,
     sso_region |-> region,
     region |-> region]

\* the inner loop of generate_profiles: `for role in account_roles.get('roleList', [])`
RECURSIVE ProfilesOfRoles(_, _, _, _)
ProfilesOfRoles(profiles, account, roles, namespace) ==
    IF roles = <<>> THEN profiles
    ELSE ProfilesOfRoles(
             Put(profiles,
                 SectionName(NameProfile(account.accountName, Head(roles), namespace)),
                 ProfileConfig(account.accountId, Head(roles), AccessPortalUrl, Region)),
             account, Tail(roles), namespace)

\* the outer loop of generate_profiles: `for account in paginator...search('accountList')`
RECURSIVE ProfilesOfAccounts(_, _, _)
ProfilesOfAccounts(profiles, accounts, namespace) ==
    IF accounts = <<>> THEN profiles
    ELSE ProfilesOfAccounts(
             ProfilesOfRoles(profiles, Head(accounts),
                             ListAccountRoles(Head(accounts)).roleList, namespace),
             Tail(accounts), namespace)

\* generate_profiles over the pages the provider delivers
GenerateProfiles(pages, namespace) == ProfilesOfAccounts(<<>>, Search(pages), namespace)

\* the (account, role) tuples in the order the two loops of generate_profiles
\* reach them
RECURSIVE Enumerated(_)
Enumerated(accounts) ==
    IF accounts = <<>> THEN <<>>
    ELSE LET a == Head(accounts)
             roles == ListAccountRoles(a).roleList
         IN [i \in 1..Len(roles) |->
                [accountId |-> a.accountId, accountName |-> a.accountName, roleName |-> roles[i]]]
            \o Enumerated(Tail(accounts))

\* every role the provider holds for a grant, over all of its pages
RolesOf(grant) ==
    UNION { {grant.rolePages[p][i] : i \in 1..Len(grant.rolePages[p])}
            : p \in 1..Len(grant.rolePages) }

\* the (account, role) pairs the provider authorizes
Authorized(l) ==
    UNION { { [accountId |-> l[k].accountId, accountName |-> l[k].accountName, roleName |-> r]
              : r \in RolesOf(l[k]) }
            : k \in 1..Len(l) }

\* ------------------------------------------------------------------ state
VARIABLES
    pc,                   \* where the program is; "idle" between runs
    run,                  \* runs started so far
    status,               \* how the last run ended: "none", "running", "ok", "failed"
    failedAt,             \* the step whose exception ended the run
    namespace,            \* args.namespace
    shellEnv,             \* the environment the shell gives each process
    environ,              \* os.environ
    original_values,      \* unset_aws_env: the values it popped
    configFile,           \* the file at config_path
    backups,              \* the .bak siblings of config_path, by stamp
    cacheFile,            \* AWS_SSO_CACHE_PATH/profile_manager.json
    now,                  \* the clock, in seconds
    aws_config,           \* configure_profiles: the ConfigParser
    token,                \* the token login returned
    client_credentials,   \* login: the registration
    device_authorization, \* login: the device authorization
    token_response,       \* login: the answer of the successful create_token
    current_profiles,     \* configure_profiles: what generate_profiles returned
    preRun,               \* history: configFile when the run started
    backupStamp,          \* history: the stamp of the backup this run wrote, or -1
    listing,              \* history: what the provider held when this run listed
    prev,                 \* history: the previous run: completed?, listing, file written,
                          \*          file found, stamp of its backup
    calls,                \* history: the provider and browser calls of this login
    polls,                \* history: pending answers in this login
    exchanges,            \* history: the arguments of this login's create_token calls
    cacheWrites,          \* history: writes of the cache file in this login
    cacheHit,             \* history: this login returned the cached token
    answer,               \* history: what the last create_token call met
    tokenExpires,         \* history: the expiry of `token`
    account_name,         \* _name_profile called alone: its first argument
    role_name,            \* _name_profile called alone: its second argument
    profile_name          \* _name_profile called alone: what it returned

ctl == <<pc, run, status, failedAt>>
nameCall == <<account_name, role_name, profile_name>>
args == <<namespace, shellEnv, nameCall>>
proc == <<environ, original_values>>
disk == <<configFile, backups, cacheFile>>
frame == <<aws_config, token, current_profiles>>
loginFrame == <<client_credentials, device_authorization, token_response>>
runLog == <<preRun, backupStamp, listing, prev>>
loginLog == <<calls, polls, exchanges, cacheWrites, cacheHit, answer, tokenExpires>>
vars == <<ctl, args, proc, disk, now, frame, loginFrame, runLog, loginLog>>

NoPrev == [ok |-> FALSE, listing |-> <<>>, file |-> NoFile, found |-> NoFile, backupStamp |-> -1]
NoOriginals == [n \in {} |-> Unset]

Init ==
    /\ pc = "idle" /\ run = 0 /\ status = "none" /\ failedAt = "none"
    /\ namespace \in Namespaces
    /\ shellEnv \in ShellEnvs
    /\ environ = shellEnv
    /\ original_values = NoOriginals
    /\ configFile \in InitialFiles
    /\ backups = NoBackups
    /\ cacheFile \in InitialCaches
    /\ now = 0
    /\ aws_config = <<>> /\ token = None /\ current_profiles = <<>>
    /\ client_credentials = NoClient
    /\ device_authorization = NoDevice
    /\ token_response = NoResponse
    /\ preRun = configFile /\ backupStamp = -1 /\ listing = <<>> /\ prev = NoPrev
    /\ calls = {} /\ polls = 0 /\ exchanges = {} /\ cacheWrites = 0
    /\ cacheHit = FALSE /\ answer = None /\ tokenExpires = 0
    /\ account_name = <<>> /\ role_name = <<>> /\ profile_name = <<>>

\* the exception of step `step` leaves configure_profiles
Raise(step) == pc' = "raised" /\ failedAt' = step /\ UNCHANGED <<run, status>>

Goto(next) == pc' = next /\ UNCHANGED <<run, status, failedAt>>

\* ------------------------------------------------------------ __main__, unset_aws_env
\* the time between two invocations
RunDelays == {0, SecondsPerMinute}

\* A new process starts with the shell's environment, `delay` seconds after the last
\* one ended; `with unset_aws_env():` pops the AWS variables and yields to
\* configure_profiles.
EnterUnsetAwsEnv(delay) ==
    /\ pc = "idle"
    /\ now' = now + delay
    /\ run' = run + 1
    /\ status' = "running"
    /\ failedAt' = "none"
    /\ pc' = "read"
    /\ original_values' = [n \in AwsVariables(shellEnv) |-> shellEnv[n]]
    /\ environ' = [n \in EnvNames |-> IF n \in AwsVariables(shellEnv) THEN Unset ELSE shellEnv[n]]
    /\ aws_config' = <<>> /\ token' = None /\ current_profiles' = <<>>
    /\ preRun' = configFile /\ backupStamp' = -1 /\ listing' = <<>>
    /\ calls' = {} /\ polls' = 0 /\ exchanges' = {} /\ cacheWrites' = 0
    /\ cacheHit' = FALSE /\ answer' = None /\ tokenExpires' = 0
    /\ client_credentials' = NoClient
    /\ device_authorization' = NoDevice
    /\ token_response' = NoResponse
    /\ UNCHANGED <<args, disk, prev>>

\* the first invocation
FirstRun == run = 0 /\ EnterUnsetAwsEnv(0)

\* the program is invoked again, against the same paths
Rerun == run \in 1..(MaxRuns - 1) /\ \E d \in RunDelays : EnterUnsetAwsEnv(d)

\* configure_profiles returned: the generator resumes after its yield and restores
\* the values it popped.
ExitUnsetAwsEnv ==
    /\ pc = "done"
    /\ environ' = [n \in EnvNames |->
                      IF n \in DOMAIN original_values THEN original_values[n] ELSE environ[n]]
    /\ pc' = "idle"
    /\ status' = "ok"
    /\ prev' = [ok |-> TRUE, listing |-> listing, file |-> configFile,
                found |-> preRun, backupStamp |-> backupStamp]
    /\ UNCHANGED <<run, failedAt, args, original_values, disk, now, frame, loginFrame,
                   preRun, backupStamp, listing, loginLog>>

\* configure_profiles raised: contextlib throws the exception into the generator at
\* its yield, which has no try/finally, so the lines after the yield do not run.
ExitUnsetAwsEnvRaised ==
    /\ pc = "raised"
    /\ pc' = "idle"
    /\ status' = "failed"
    /\ prev' = NoPrev
    /\ UNCHANGED <<run, failedAt, args, proc, disk, now, frame, loginFrame,
                   preRun, backupStamp, listing, loginLog>>

\* ------------------------------------------------------------ configure_profiles: load
\* ReadConfigMissing, had the `else:` of the try been plain code after it
ReadConfigMissingBacksUp ==
    /\ pc = "read"
    /\ ~configFile.exists
    /\ aws_config' = <<>>
    /\ pc' = "backup" /\ UNCHANGED <<run, status, failedAt>>
    /\ UNCHANGED <<args, proc, disk, now, token, current_profiles, loginFrame, runLog, loginLog>>

\* config_path.open() raises FileNotFoundError: pass, and no backup
ReadConfigMissing ==
    /\ pc = "read"
    /\ ~configFile.exists
    /\ aws_config' = <<>>
    /\ Goto("login")
    /\ UNCHANGED <<args, proc, disk, now, token, current_profiles, loginFrame, runLog, loginLog>>

\* aws_config.read_file(f): the sections and their settings; comment lines are skipped
ReadConfig ==
    /\ pc = "read"
    /\ configFile.exists /\ configFile.parses
    /\ aws_config' = configFile.sections
    /\ Goto("backup")
    /\ UNCHANGED <<args, proc, disk, now, token, current_profiles, loginFrame, runLog, loginLog>>

\* aws_config.read_file(f) raises configparser.Error on a file that does not parse
ReadConfigRaises ==
    /\ pc = "read"
    /\ configFile.exists /\ ~configFile.parses
    /\ Raise("read")
    /\ UNCHANGED <<args, proc, disk, now, frame, loginFrame, runLog, loginLog>>

\* the backup file of the run that reads the clock at t
BackupBefore(b, t) == IF Stamp(t) \in DOMAIN b THEN b[Stamp(t)] ELSE NoFile

\* the backups directory once the write of the file stamped t has left `file`
BackupsAfter(b, t, file) == IF file.exists THEN WithBackup(b, Stamp(t), file) ELSE b

\* with config_path.with_suffix(f'.{now}.bak').open('w') as backup: aws_config.write(backup)
BackupConfig ==
    /\ pc = "backup"
    /\ LET o == CHOOSE x \in WriteOutcomes(BackupBefore(backups, now), aws_config) : ~x.raised
       IN backups' = BackupsAfter(backups, now, o.file)
    /\ backupStamp' = Stamp(now)
    /\ Goto("login")
    /\ UNCHANGED <<args, proc, configFile, cacheFile, now, frame, loginFrame,
                   preRun, listing, prev, loginLog>>

BackupConfigRaises ==
    /\ pc = "backup"
    /\ \E o \in WriteOutcomes(BackupBefore(backups, now), aws_config) :
          /\ o.raised
          /\ backups' = BackupsAfter(backups, now, o.file)
    /\ Raise("backup")
    /\ UNCHANGED <<args, proc, configFile, cacheFile, now, frame, loginFrame, runLog, loginLog>>

\* ------------------------------------------------------------ login
\* LoginCached, had it gone on to _cache_token with the cached token
LoginCachedRewritesCache ==
    /\ pc = "login"
    /\ LET r == GetCachedToken(cacheFile, now) IN
          /\ ~r.raised
          /\ r.token # None
          /\ token' = r.token
          /\ cacheFile' = CacheToken(now, r.token, 1)
    /\ cacheHit' = TRUE
    /\ cacheWrites' = cacheWrites + 1
    /\ tokenExpires' = cacheFile.expires
    /\ pc' = "logged_in" /\ UNCHANGED <<run, status, failedAt>>
    /\ UNCHANGED <<args, proc, configFile, backups, now, aws_config, current_profiles,
                   loginFrame, runLog, calls, polls, exchanges, answer>>

\* `if (token := _get_cached_token(cached_token_path)) is not None: return token`
LoginCached ==
    /\ pc = "login"
    /\ LET r == GetCachedToken(cacheFile, now) IN
          /\ ~r.raised
          /\ r.token # None
          /\ token' = r.token
    /\ cacheHit' = TRUE
    /\ tokenExpires' = cacheFile.expires
    /\ Goto("logged_in")
    /\ UNCHANGED <<args, proc, disk, now, aws_config, current_profiles, loginFrame, runLog,
                   calls, polls, exchanges, cacheWrites, answer>>

\* _get_cached_token returned None: on to the registration
LoginCacheMiss ==
    /\ pc = "login"
    /\ LET r == GetCachedToken(cacheFile, now) IN ~r.raised /\ r.token = None
    /\ Goto("register")
    /\ UNCHANGED <<args, proc, disk, now, frame, loginFrame, runLog, loginLog>>

\* _get_cached_token raised an exception it does not catch
LoginCacheRaises ==
    /\ pc = "login"
    /\ GetCachedToken(cacheFile, now).raised
    /\ Raise("cache")
    /\ UNCHANGED <<args, proc, disk, now, frame, loginFrame, runLog, loginLog>>

\* oidc.register_client(clientName=CLIENT_NAME, clientType='public')
RegisterClient ==
    /\ pc = "register"
    /\ \E c \in ClientIds : client_credentials' = [clientId |-> c, clientSecret |-> c]
    /\ calls' = calls \cup {"register_client"}
    /\ Goto("authorize")
    /\ UNCHANGED <<args, proc, disk, now, frame, device_authorization, token_response, runLog,
                   polls, exchanges, cacheWrites, cacheHit, answer, tokenExpires>>

RegisterClientRaises ==
    /\ pc = "register"
    /\ calls' = calls \cup {"register_client"}
    /\ Raise("register")
    /\ UNCHANGED <<args, proc, disk, now, frame, loginFrame, runLog,
                   polls, exchanges, cacheWrites, cacheHit, answer, tokenExpires>>

\* oidc.start_device_authorization(...), then the user code is printed and the
\* browser opened on verificationUriComplete
StartDeviceAuthorization ==
    /\ pc = "authorize"
    /\ \E d \in DeviceCodes : device_authorization' = [deviceCode |-> d]
    /\ calls' = calls \cup {"start_device_authorization", "webbrowser.open"}
    /\ Goto("poll")
    /\ UNCHANGED <<args, proc, disk, now, frame, client_credentials, token_response, runLog,
                   polls, exchanges, cacheWrites, cacheHit, answer, tokenExpires>>

StartDeviceAuthorizationRaises ==
    /\ pc = "authorize"
    /\ calls' = calls \cup {"start_device_authorization"}
    /\ Raise("authorize")
    /\ UNCHANGED <<args, proc, disk, now, frame, loginFrame, runLog,
                   polls, exchanges, cacheWrites, cacheHit, answer, tokenExpires>>

\* the arguments of oidc.create_token
CreateTokenRequest ==
    [clientId |-> client_credentials.clientId,
     clientSecret |-> client_credentials.clientSecret,
     deviceCode |-> device_authorization.deviceCode]

\* CreateTokenPending, had the loop given up on a pending answer
CreateTokenPendingGivesUp ==
    /\ pc = "poll"
    /\ polls < MaxPolls
    /\ polls' = polls + 1
    /\ answer' = "AuthorizationPendingException"
    /\ exchanges' = exchanges \cup {[clientId |-> client_credentials.clientId,
                                       clientSecret |-> client_credentials.clientSecret,
                                       deviceCode |-> device_authorization.deviceCode]}
    /\ calls' = calls \cup {"create_token"}
    /\ pc' = "raised" /\ failedAt' = "poll" /\ UNCHANGED <<run, status>>
    /\ UNCHANGED <<args, proc, disk, now, frame, loginFrame, runLog,
                   cacheWrites, cacheHit, tokenExpires>>

\* create_token raises AuthorizationPendingException: `time.sleep(1)` is next
CreateTokenPending ==
    /\ pc = "poll"
    /\ polls < MaxPolls
    /\ polls' = polls + 1
    /\ answer' = "AuthorizationPendingException"
    /\ exchanges' = exchanges \cup {CreateTokenRequest}
    /\ calls' = calls \cup {"create_token"}
    /\ Goto("sleep")
    /\ UNCHANGED <<args, proc, disk, now, frame, loginFrame, runLog,
                   cacheWrites, cacheHit, tokenExpires>>

\* time.sleep(1), and around the loop
Sleep ==
    /\ pc = "sleep"
    /\ now' = now + 1
    /\ Goto("poll")
    /\ UNCHANGED <<args, proc, disk, frame, loginFrame, runLog, loginLog>>

\* create_token answers: `else: break`
CreateToken ==
    /\ pc = "poll"
    /\ \E life \in Lifetimes :
          token_response' = [accessToken |-> "tok-new", expiresIn |-> life]
    /\ answer' = "accessToken"
    /\ exchanges' = exchanges \cup {CreateTokenRequest}
    /\ calls' = calls \cup {"create_token"}
    /\ Goto("cache_token")
    /\ UNCHANGED <<args, proc, disk, now, frame, client_credentials, device_authorization,
                   runLog, polls, cacheWrites, cacheHit, tokenExpires>>

\* CreateTokenRaises, had the loop caught every exception of create_token
CreateTokenRaisesRetried ==
    /\ pc = "poll"
    /\ \E e \in PollErrors : answer' = e
    /\ pc' = "sleep" /\ UNCHANGED <<run, status, failedAt>>
    /\ exchanges' = exchanges \cup {[clientId |-> client_credentials.clientId,
                                       clientSecret |-> client_credentials.clientSecret,
                                       deviceCode |-> device_authorization.deviceCode]}
    /\ calls' = calls \cup {"create_token"}
    /\ UNCHANGED <<args, proc, disk, now, frame, loginFrame, runLog,
                   polls, cacheWrites, cacheHit, tokenExpires>>

\* create_token raises anything else: nothing catches it
CreateTokenRaises ==
    /\ pc = "poll"
    /\ \E e \in PollErrors : answer' = e
    /\ Raise("poll")
    /\ exchanges' = exchanges \cup {CreateTokenRequest}
    /\ calls' = calls \cup {"create_token"}
    /\ UNCHANGED <<args, proc, disk, now, frame, loginFrame, runLog,
                   polls, cacheWrites, cacheHit, tokenExpires>>

\* token = token_response['accessToken']; _cache_token(...); return token
CacheTokenAndReturn ==
    /\ pc = "cache_token"
    /\ token' = token_response.accessToken
    /\ cacheFile' = CacheToken(now, token_response.accessToken, token_response.expiresIn)
    /\ cacheWrites' = cacheWrites + 1
    /\ tokenExpires' = now + token_response.expiresIn
    /\ Goto("logged_in")
    /\ UNCHANGED <<args, proc, configFile, backups, now, aws_config, current_profiles,
                   loginFrame, runLog, calls, polls, exchanges, cacheHit, answer>>

\* login returns: its locals are gone, and the history of the call is closed
LoginReturns ==
    /\ pc = "logged_in"
    /\ client_credentials' = NoClient
    /\ device_authorization' = NoDevice
    /\ token_response' = NoResponse
    /\ calls' = {} /\ polls' = 0 /\ exchanges' = {} /\ cacheWrites' = 0 /\ cacheHit' = FALSE
    /\ answer' = None
    /\ Goto("generate")
    /\ UNCHANGED <<args, proc, disk, now, frame, runLog, tokenExpires>>

\* ------------------------------------------------------------ configure_profiles: reconcile
\* the page sizes the provider may use for list_accounts
PageSizes == 1..MaxAccounts

\* the time the listing calls may take
ListDelays == {0, 1}

\* current_profiles = generate_profiles(token, access_portal_url, namespace, region)
CallGenerateProfiles ==
    /\ pc = "generate"
    /\ \E l \in Listings, size \in PageSizes :
          /\ listing' = l
          /\ current_profiles' = GenerateProfiles(Paginate(l, size), namespace)
    /\ \E d \in ListDelays : now' = now + d
    /\ Goto("merge")
    /\ UNCHANGED <<args, proc, disk, aws_config, token, loginFrame,
                   preRun, backupStamp, prev, loginLog>>

\* a listing call raises (the service rejects the token, the network fails)
CallGenerateProfilesRaises ==
    /\ pc = "generate"
    /\ Raise("generate")
    /\ UNCHANGED <<args, proc, disk, now, frame, loginFrame, runLog, loginLog>>

\* for profile_name, profile_config in current_profiles.items():
\*     aws_config[profile_name] = profile_config
MergeProfiles(config, profiles) == PutAll(config, profiles)

Merge ==
    /\ pc = "merge"
    /\ aws_config' = MergeProfiles(aws_config, current_profiles)
    /\ Goto("prune")
    /\ UNCHANGED <<args, proc, disk, now, token, current_profiles, loginFrame, runLog, loginLog>>

\* all_sso_profiles: the sections that start with f'profile {namespace}'
AllSsoProfiles(config, ns) == {n \in Keys(config) : StartsWith(n, ProfileWord \o ns)}

\* outdated_profiles = all_sso_profiles - current_profiles.keys()
OutdatedProfiles(config, profiles, ns) == AllSsoProfiles(config, ns) \ Keys(profiles)

\* for profile_name in outdated_profiles: del aws_config[profile_name]
Prune ==
    /\ pc = "prune"
    /\ aws_config' = DelAll(aws_config, OutdatedProfiles(aws_config, current_profiles, namespace))
    /\ Goto("write")
    /\ UNCHANGED <<args, proc, disk, now, token, current_profiles, loginFrame, runLog, loginLog>>

\* with config_path.open('w') as f: aws_config.write(f)
WriteConfig ==
    /\ pc = "write"
    /\ configFile' = (CHOOSE o \in WriteOutcomes(configFile, aws_config) : ~o.raised).file
    /\ Goto("done")
    /\ UNCHANGED <<args, proc, backups, cacheFile, now, frame, loginFrame, runLog, loginLog>>

WriteConfigRaises ==
    /\ pc = "write"
    /\ \E o \in WriteOutcomes(configFile, aws_config) :
          /\ o.raised
          /\ configFile' = o.file
    /\ Raise("write")
    /\ UNCHANGED <<args, proc, backups, cacheFile, now, frame, loginFrame, runLog, loginLog>>

\* ------------------------------------------------------------ the program
Next ==
    \/ FirstRun
    \/ ExitUnsetAwsEnv
    \/ ExitUnsetAwsEnvRaised
    \/ ReadConfigMissing
    \/ ReadConfig
    \/ ReadConfigRaises
    \/ BackupConfig
    \/ BackupConfigRaises
    \/ LoginCached
    \/ LoginCacheMiss
    \/ LoginCacheRaises
    \/ RegisterClient
    \/ RegisterClientRaises
    \/ StartDeviceAuthorization
    \/ StartDeviceAuthorizationRaises
    \/ CreateTokenPending
    \/ Sleep
    \/ CreateToken
    \/ CreateTokenRaises
    \/ CacheTokenAndReturn
    \/ LoginReturns
    \/ CallGenerateProfiles
    \/ CallGenerateProfilesRaises
    \/ Merge
    \/ Prune
    \/ WriteConfig
    \/ WriteConfigRaises

\* one invocation, from every state of the disk, whatever the provider answers
Spec == Init /\ [][Next]_vars

\* Consecutive invocations that complete: the cached token outlives them, and no
\* call raises.
InitRerun ==
    /\ Init
    /\ configFile # CorruptFile
    /\ cacheFile = CacheObject(TRUE, Horizon, TRUE, "tok-old")

NextRerun ==
    \/ FirstRun
    \/ Rerun
    \/ ExitUnsetAwsEnv
    \/ ReadConfigMissing
    \/ ReadConfig
    \/ BackupConfig
    \/ LoginCached
    \/ LoginReturns
    \/ CallGenerateProfiles
    \/ Merge
    \/ Prune
    \/ WriteConfig

SpecRerun == InitRerun /\ [][NextRerun]_vars

\* ------------------------------------------------------------ _name_profile alone
\* the characters of the names: a lower-case letter, two upper-case letters, a digit
NameChars == {"a", "B", "C", "1"}

\* the account and role names
Words == UNION {[1..n -> NameChars] : n \in 0..MaxWordLen}

\* the namespaces: lower case as the default 'sso' is, or with an upper-case letter
NameNamespaces == {<<"s">>, <<"S">>, <<"s", "S">>}

\* _name_profile is about to be called with any names and any namespace
InitName ==
    /\ pc = "name_profile" /\ run = 0 /\ status = "none" /\ failedAt = "none"
    /\ namespace \in NameNamespaces
    /\ account_name \in Words
    /\ role_name \in Words
    /\ profile_name = <<>>
    /\ shellEnv \in ShellEnvs
    /\ environ = shellEnv
    /\ original_values = NoOriginals
    /\ configFile = NoFile
    /\ backups = NoBackups
    /\ cacheFile = CacheAbsent
    /\ now = 0
    /\ aws_config = <<>> /\ token = None /\ current_profiles = <<>>
    /\ client_credentials = NoClient
    /\ device_authorization = NoDevice
    /\ token_response = NoResponse
    /\ preRun = configFile /\ backupStamp = -1 /\ listing = <<>> /\ prev = NoPrev
    /\ calls = {} /\ polls = 0 /\ exchanges = {} /\ cacheWrites = 0
    /\ cacheHit = FALSE /\ answer = None /\ tokenExpires = 0

\* profile_name = _name_profile(account_name, role_name, namespace)
CallNameProfile ==
    /\ pc = "name_profile"
    /\ profile_name' = NameProfile(account_name, role_name, namespace)
    /\ Goto("named")
    /\ UNCHANGED <<namespace, shellEnv, account_name, role_name, proc, disk, now, frame,
                   loginFrame, runLog, loginLog>>

NextName == CallNameProfile

SpecName == InitName /\ [][NextName]_vars

\* ------------------------------------------------------------ what the claims speak of
\* a section of namespace ns: its name begins with 'profile ' + ns + '-'
Namespaced(n, ns) == StartsWith(n, ProfileWord \o ns \o <<"-">>)

\* the section of an authorized pair
SectionOf(p, ns) == SectionName(NameProfile(p.accountName, p.roleName, ns))

NamespacedSections(file, ns) == {n \in Keys(file.sections) : Namespaced(n, ns)}

\* the cache file holds a well-formed record whose expiry is after t
CacheValid(cache, t) ==
    cache.exists /\ cache.json /\ cache.has_expires /\ cache.has_token /\ cache.expires > t

\* C1: every section outside the namespace (its name does not begin with
\* 'profile <namespace>-') that the file held before the run is in the file the run
\* wrote, with the settings it had.
C1_OtherSectionsKept ==
    pc = "done" =>
        \A n \in Keys(preRun.sections) :
            ~Namespaced(n, namespace) =>
                /\ n \in Keys(configFile.sections)
                /\ Get(configFile.sections, n) = Get(preRun.sections, n)

\* C2: after a run that completes, the namespaced sections of the file are the
\* sections of the authorized pairs, one section to each pair: none stale, none
\* missing, no two pairs in one section.
C2_SectionsAreAuthorizedPairs ==
    pc = "done" =>
        /\ NamespacedSections(configFile, namespace)
               = {SectionOf(p, namespace) : p \in Authorized(listing)}
        /\ Cardinality(NamespacedSections(configFile, namespace))
               = Cardinality(Authorized(listing))

\* C3: when the write of the config file raises after the backup was written, the
\* file still exists, parses to what it held before the run, and the backup exists.
C3_FailedWriteKeepsStore ==
    (pc = "raised" /\ failedAt = "write" /\ backupStamp # -1) =>
        /\ configFile.exists /\ configFile.parses
        /\ configFile.sections = preRun.sections
        /\ backupStamp \in DOMAIN backups
        /\ backups[backupStamp].exists

\* C4: while configure_profiles runs, no AWS variable but AWS_SDK_LOAD_CONFIG is set;
\* when the guarded run has exited, normally or by an exception, the environment is
\* what it was before the run.
C4_EnvironmentRestored ==
    /\ pc # "idle" => \A n \in AwsVariables(shellEnv) : environ[n] = Unset
    /\ (pc = "idle" /\ status \in {"ok", "failed"}) => environ = shellEnv

\* C5: the cache load never raises; it yields the cached token when the file holds a
\* record whose expiry is after the clock, and nothing (login goes on to register)
\* when the file is absent, malformed, or not strictly in the future.
C5_CacheLoadFailsSoft ==
    /\ failedAt # "cache"
    /\ (pc = "logged_in" /\ cacheHit) => CacheValid(cacheFile, now) /\ token = cacheFile.token
    /\ pc = "register" => ~CacheValid(cacheFile, now)
    /\ (pc = "login" /\ CacheValid(cacheFile, now)) => ENABLED LoginCached

\* C6: when a pair authorized in the previous run is no longer authorized, the
\* file the current run writes has no section for it, and every other namespaced
\* section of a pair still authorized is there with the settings the previous run
\* gave it.
C6_PruningAcrossRuns ==
    (pc = "done" /\ prev.ok) =>
        \A p \in Authorized(prev.listing) \ Authorized(listing) :
            /\ SectionOf(p, namespace) \notin Keys(configFile.sections)
            /\ \A n \in NamespacedSections(prev.file, namespace) \ {SectionOf(p, namespace)} :
                  n \in {SectionOf(q, namespace) : q \in Authorized(listing)} =>
                      /\ n \in Keys(configFile.sections)
                      /\ Get(configFile.sections, n) = Get(prev.file.sections, n)

\* C7: a second run that meets the same listing as the run before it leaves the
\* file as the first run wrote it: the same sections, in the same order, with the
\* same settings.
C7_Idempotent ==
    (pc = "done" /\ prev.ok /\ listing = prev.listing) => configFile = prev.file

C7_Witness ==
    /\ pc = "done" /\ prev.ok /\ listing = prev.listing
    /\ Len(current_profiles) > 1
    /\ Keys(configFile.sections) # Keys(current_profiles)

Pending == "AuthorizationPendingException"

\* C8: a pending answer is never an error. The step that meets it goes to the
\* 1-second sleep with the registration and the device code untouched, the sleep
\* goes back to the same exchange, every create_token call of a login carries the
\* same arguments, and polling ends only on an answer or on another exception.
C8_PendingIsRetried ==
    [][ /\ (pc = "poll" /\ answer' = Pending) =>
              /\ pc' = "sleep"
              /\ failedAt' = "none"
              /\ UNCHANGED <<client_credentials, device_authorization>>
        /\ pc = "sleep" =>
              /\ pc' = "poll"
              /\ now' = now + 1
              /\ failedAt' = "none"
              /\ UNCHANGED <<client_credentials, device_authorization>>
        /\ Cardinality(exchanges') <= 1
        /\ (pc = "poll" /\ pc' \notin {"poll", "sleep"}) =>
              \/ answer' = "accessToken" /\ pc' = "cache_token"
              \/ answer' \in PollErrors /\ pc' = "raised"
      ]_vars

\* every pending answer the provider may give has been met, and login still polls
C8_Witness ==
    pc = "poll" /\ polls = MaxPolls /\ answer = Pending /\ failedAt = "none"

\* C9: an exception of create_token other than the pending one ends the login at
\* once: the step that meets it raises, nothing is written to the token cache, no
\* token is held, and the run ends failed with the config file as it found it.
C9_PollErrorIsFatal ==
    [][ /\ (pc = "poll" /\ answer' \in PollErrors) =>
              /\ pc' = "raised"
              /\ cacheFile' = cacheFile /\ cacheWrites' = 0
              /\ token' = None
        /\ (pc = "raised" /\ answer \in PollErrors) =>
              /\ pc' = "idle" /\ status' = "failed"
              /\ calls' = calls
              /\ cacheFile' = cacheFile /\ cacheWrites' = 0
              /\ token' = None
              /\ configFile' = preRun
      ]_vars

C9_Witness ==
    pc = "idle" /\ status = "failed" /\ answer \in PollErrors /\ polls > 0

\* C10: with a valid record in the cache file, login returns its token at once: no
\* registration, no device authorization, no exchange, no browser, and the cache
\* file is not written.
C10_CacheHitSkipsLogin ==
    [][ /\ (pc = "login" /\ CacheValid(cacheFile, now)) =>
              /\ pc' = "logged_in"
              /\ token' = cacheFile.token
              /\ cacheFile' = cacheFile
              /\ calls' = {} /\ polls' = 0 /\ exchanges' = {} /\ cacheWrites' = 0
        /\ (pc = "logged_in" /\ cacheHit) =>
              /\ pc' = "generate"
              /\ token' = token
              /\ cacheFile' = cacheFile
      ]_vars

C10_Witness ==
    pc = "generate" /\ token = "tok-old" /\ cacheFile.token = "tok-old" /\ tokenExpires > now

\* the steps of login between the cache miss and the answer of create_token
Acquiring == {"register", "authorize", "poll", "sleep"}

\* C11: a login that polls writes the token cache exactly once: nothing is written
\* while it registers, authorizes, polls and sleeps; the step that follows the
\* answer of create_token writes the answered token with the expiry
\* clock + expiresIn and hands that token to the caller; and the login returns with
\* that one write, the cache file holding the returned token.
C11_TokenCachedOnce ==
    [][ /\ pc \in Acquiring => cacheFile' = cacheFile /\ cacheWrites' = 0
        /\ pc = "cache_token" =>
              /\ pc' = "logged_in"
              /\ cacheWrites' = 1
              /\ cacheFile' = CacheObject(TRUE, now + token_response.expiresIn,
                                          TRUE, token_response.accessToken)
              /\ token' = token_response.accessToken
              /\ now' = now
        /\ (pc = "logged_in" /\ ~cacheHit) =>
              /\ cacheWrites = 1
              /\ cacheFile.token = token
              /\ cacheFile.expires = tokenExpires
              /\ pc' = "generate" /\ token' = token /\ cacheFile' = cacheFile
      ]_vars

\* create_token answered pending MaxPolls times, then gave a token, which is cached
C11_Witness ==
    /\ pc = "logged_in" /\ ~cacheHit
    /\ polls = MaxPolls /\ now >= MaxPolls
    /\ cacheWrites = 1 /\ cacheFile.token = "tok-new" /\ cacheFile.expires = now + 3

\* the characters str.isupper holds for
HasUpper(w) == \E i \in 1..Len(w) : w[i] \in UpperChars

\* the name with its first k characters removed
Drop(w, k) == SubSeq(w, k + 1, Len(w))

C13_MissingStoreIsEmptyStore ==
    (status # "none" /\ ~preRun.exists) =>
        /\ failedAt \notin {"read", "backup"}
        /\ pc # "backup"
        /\ pc = "login" => aws_config = <<>>
        /\ backupStamp = -1 /\ backups = NoBackups
        /\ pc = "done" => configFile = FileOf(current_profiles)

C13_Witness ==
    /\ pc = "done" /\ ~preRun.exists
    /\ Len(current_profiles) > 1
    /\ configFile.exists /\ Len(configFile.sections) = Len(current_profiles)
    /\ backups = NoBackups

\* the backup this run wrote is in place and holds the sections the run read
BackupIntact ==
    /\ backupStamp \in DOMAIN backups
    /\ backups[backupStamp] = FileOf(preRun.sections)

\* C14: a run that raises before the final write leaves the config file as it
\* found it and the backup it wrote, if it wrote one, in place; and the config
\* file changes only in the step that completes a run.
C14_NoPartialSuccess ==
    [][ /\ (pc' = "raised" /\ failedAt' # "write") =>
              /\ configFile' = preRun
              /\ backupStamp # -1 => BackupIntact'
        /\ configFile' # configFile => pc' = "done"
      ]_vars

\* the steps that change the ConfigParser or the config file, and the end of the run
Mutating == {"merge", "prune", "write", "done"}

\* C15: a run that found a config file reaches the merge, the prune and the write
\* only with a backup on disk that is a full copy of the file it found; as long as
\* no backup was written, neither the file nor the sections read from it have
\* changed; and a failed backup ends the run with the file as it was.
C15_BackupBeforeMutation ==
    /\ (preRun.exists /\ pc \in Mutating) =>
          /\ backupStamp \in DOMAIN backups
          /\ backups[backupStamp] = preRun
    /\ (status # "none" /\ preRun.exists /\ backupStamp = -1) =>
          /\ configFile = preRun
          /\ aws_config \in {<<>>, preRun.sections}
    /\ failedAt = "backup" => pc \in {"raised", "idle"} /\ configFile = preRun

\* C16: the backup of a run that found a config file stays on disk with the
\* sections that run found: the backup of the run before is still there, as it was
\* written, while and after the next run works, in the same minute or in a later
\* one; and the run at work has its own.
C16_BackupsAccumulate ==
    /\ (prev.ok /\ prev.found.exists) =>
          /\ prev.backupStamp \in DOMAIN backups
          /\ backups[prev.backupStamp].sections = prev.found.sections
    /\ (preRun.exists /\ pc \in Mutating) =>
          /\ backupStamp \in DOMAIN backups
          /\ backups[backupStamp].sections = preRun.sections

\* C17: the token login returns has not expired when it is returned, and has not
\* expired when the listing calls that carry it are made (the last of them is made
\* at the clock the merge starts with).
C17_TokenNeverUsedExpired ==
    /\ pc = "logged_in" => tokenExpires > now
    /\ pc = "generate" => tokenExpires > now
    /\ pc = "merge" => tokenExpires > now

\* C18: what generate_profiles returns has an entry under the name of every
\* (account, role) pair the provider holds, on whatever page of the account listing
\* or of the role listing the pair is, and no entry under any other name; an
\* account without roles adds nothing.
C18_EveryPairEnumerated ==
    pc = "merge" =>
        Keys(current_profiles) = {SectionOf(p, namespace) : p \in Authorized(listing)}

\* C19: after a run that completes, the section of every authorized pair is in the
\* file and holds the five settings of that pair and nothing else: the portal URL,
\* the account id, the role name as the provider spells it, and the region twice.
\* The settings of a section that had the name before the run are gone.
C19_WholeEntryReplaced ==
    pc = "done" =>
        \A p \in Authorized(listing) :
            LET n == SectionOf(p, namespace) IN
                /\ n \in Keys(configFile.sections)
                /\ Get(configFile.sections, n)
                       = [sso_start_url |-> AccessPortalUrl,
                          sso_account_id |-> p.accountId,
                          sso_role_name |-> p.roleName,
                          sso_region |-> Region,
                          region |-> Region]

\* C20: the mapping generate_profiles returns has one entry to a name, and the
\* entry under a name holds the account id and the role name of the last of the
\* enumerated tuples that have the name: a tuple enumerated earlier under the same
\* name has left nothing, and the call has returned.
C20_LaterTupleWins ==
    pc = "merge" =>
        LET ts == Enumerated(listing)
            NameOf(k) == SectionOf(ts[k], namespace)
            Last(n) == CHOOSE j \in 1..Len(ts) :
                          /\ NameOf(j) = n
                          /\ \A i \in (j + 1)..Len(ts) : NameOf(i) # n
        IN /\ \A i, j \in 1..Len(current_profiles) :
                  current_profiles[i].name = current_profiles[j].name => i = j
           /\ Keys(current_profiles) = {NameOf(k) : k \in 1..Len(ts)}
           /\ \A k \in 1..Len(ts) :
                  LET w == ts[Last(NameOf(k))] IN
                      /\ Get(current_profiles, NameOf(k)).sso_account_id = w.accountId
                      /\ Get(current_profiles, NameOf(k)).sso_role_name = w.roleName

\* the roles 'R' and 'r' of one account: one entry, with 'r'
C20_Witness ==
    /\ pc = "merge"
    /\ Len(listing) = 1
    /\ listing[1].rolePages = << <<RoleR, RoleLowerR>> >>
    /\ Len(current_profiles) = 1
    /\ current_profiles[1].settings.sso_role_name = RoleLowerR

====
